---- MODULE Spec2Model ----
(***************************************************************************)
(* A model of src/shared/openssl-util.c: the wrappers around the OpenSSL   *)
(* provider for digests, HMAC, RSA/ECC key marshalling and key sizing.     *)
(*                                                                         *)
(* Every wrapper is a straight-line sequence of provider calls, libc       *)
(* allocations and checks; the first one that fails decides the return     *)
(* code.  The provider is external: a call may fail on its own (a "fault", *)
(* chosen by the environment), may queue error records on the thread's     *)
(* error queue, and reports sizes the wrapper has to check.                *)
(***************************************************************************)
EXTENDS Integers, Sequences, FiniteSets, TLC

VARIABLES
    gen,        \* OPENSSL_VERSION_MAJOR of the build: 1 (< 3) or 3 (>= 3)
    errq,       \* the calling thread's OpenSSL error queue (oldest first)
    op,         \* the wrapper called last ("" before the first call)
    args,       \* its arguments
    returned,   \* TRUE: it returned rc; FALSE: an assert() aborted the process
    rc,         \* its return code: 0 or a negative errno
    wrote,      \* the caller's output slots it wrote
    out,        \* the values of those slots
    calls,      \* the provider calls, allocations and checks it issued, in order
    failed,     \* the call that failed ("" when none did)
    fault,      \* index in calls of the environment fault it met (0: none)
    log,        \* the diagnostics it emitted
    drain,      \* what log_openssl_errors() saw, when it ran
    made,       \* the arguments that built the key handle in out.pkey / args.pkey
    pc,         \* where a log_openssl_errors() run on its own stands ("" otherwise)
    thr,        \* the threads of a concurrent run, their queues and contexts (<<>> otherwise)
    res         \* what became of the call's scoped locals when it left

vars == <<gen, errq, op, args, returned, rc, wrote, out, calls, failed, fault, log, drain,
          made, pc, thr, res>>

(***************************************************************************)
(* Bounds of the model.                                                    *)
(***************************************************************************)
MaxQueue == 2       \* records the error queue holds at most
MaxIov == 2         \* descriptors of a scattered input at most
MaxKeyLen == 2      \* bytes of a key component buffer at most

(***************************************************************************)
(* errno values, as <errno.h> numbers them.                                *)
(***************************************************************************)
EIO == 5
ENOMEM == 12
EBADMSG == 74
EOPNOTSUPP == 95

ErrCodes == {1, 2}                  \* packed OpenSSL error codes (never 0)
ByteVals == {0, 1, 255}             \* the byte values buffers are drawn from

RECURSIVE SeqsUpTo(_, _)
SeqsUpTo(S, n) ==
    IF n = 0 THEN {<<>>}
    ELSE LET shorter == SeqsUpTo(S, n - 1)
         IN shorter \cup {Append(s, x) : s \in {t \in shorter : Len(t) = n - 1}, x \in S}

RECURSIVE Concat(_)
Concat(ss) == IF ss = <<>> THEN <<>> ELSE Head(ss) \o Concat(Tail(ss))

(***************************************************************************)
(* log_openssl_errors(): pops every record of the thread's error queue and *)
(* logs it; logs "No openssl errors." when the queue was empty.  Returns   *)
(* -EIO, or -ENOMEM without touching the queue when its 512 byte buffer    *)
(* cannot be allocated.                                                    *)
(***************************************************************************)
LogErr(e) == <<"error", e>>         \* fmt ": %s" with ERR_error_string_n(e)
LogNoErrors == <<"none", 0>>        \* fmt ": No openssl errors."
LogOom == <<"oom", 0>>              \* log_oom_debug()
LogDebug(what) == <<what, 0>>       \* log_debug_errno() with a plain message

\* __log_openssl_errors: the for (;;) loop over ERR_get_error()
RECURSIVE DrainLoop(_, _, _)
DrainLoop(q, r, emitted) ==
    IF q = <<>> THEN [r |-> r, log |-> emitted, errq |-> q]
    ELSE DrainLoop(Tail(q), -EIO, Append(emitted, LogErr(Head(q))))

log_openssl_errors(q, bufOk) ==
    IF ~bufOk THEN [rc |-> -ENOMEM, log |-> <<LogOom>>, errq |-> q]
    ELSE LET l == DrainLoop(q, 0, <<>>)
         IN IF l.r # 0 THEN [rc |-> l.r, log |-> l.log, errq |-> l.errq]
            ELSE [rc |-> -EIO, log |-> Append(l.log, LogNoErrors), errq |-> l.errq]

NoDrain == [ran |-> FALSE, entry |-> <<>>, bufOk |-> FALSE]

(***************************************************************************)
(* A wrapper as a sequence of steps.  kind: "call" (a provider call the    *)
(* environment may fail), "alloc" (malloc/new, likewise, queues nothing),  *)
(* "value" (a provider result the wrapper tests), "check" (a test on the   *)
(* wrapper's own values) or "assert".  ok: whether the step succeeds when  *)
(* the environment lets it.  onfail: what the wrapper returns when it does *)
(* not.  arg: what the step is given or yields, for the record in calls.   *)
(***************************************************************************)
Step(call, kind, ok, onfail, arg) ==
    [call |-> call, kind |-> kind, ok |-> ok, onfail |-> onfail, arg |-> arg]

\* the first step that fails: one whose ok is FALSE, or the faulted one
FailAt(steps, flt) ==
    LET bad == {i \in 1..Len(steps) : ~steps[i].ok \/ i = flt}
    IN IF bad = {} THEN 0 ELSE CHOOSE i \in bad : \A j \in bad : i <= j

\* the faults the environment can inject: none, or a call or allocation that is reached
Faults(steps) ==
    {0} \cup {i \in 1..Len(steps) : steps[i].kind \in {"call", "alloc"} /\ FailAt(steps, i) = i}

Trace(steps, n) == [i \in 1..n |-> <<steps[i].call, steps[i].arg>>]

Exec(steps, flt, push, bufOk, q) ==
    LET k == FailAt(steps, flt)
    IN IF k = 0
       THEN [returned |-> TRUE, rc |-> 0, calls |-> Trace(steps, Len(steps)), failed |-> "",
             log |-> <<>>, errq |-> q, drain |-> NoDrain]
       ELSE LET s == steps[k]
                \* a failing provider call may leave records on the queue
                q1 == IF s.kind \in {"call", "value"} THEN q \o push ELSE q
                base == [returned |-> TRUE, rc |-> 0, calls |-> Trace(steps, k), failed |-> s.call,
                         log |-> <<>>, errq |-> q1, drain |-> NoDrain]
            IN CASE s.onfail = "drain" ->
                      LET d == log_openssl_errors(q1, bufOk)
                      IN [base EXCEPT !.rc = d.rc, !.log = d.log, !.errq = d.errq,
                                      !.drain = [ran |-> TRUE, entry |-> q1, bufOk |-> bufOk]]
                 [] s.onfail = "oom" -> [base EXCEPT !.rc = -ENOMEM, !.log = <<LogOom>>]
                 [] s.onfail = "enomem" -> [base EXCEPT !.rc = -ENOMEM]
                 [] s.onfail = "eopnotsupp" ->
                      [base EXCEPT !.rc = -EOPNOTSUPP, !.log = <<LogDebug("not supported")>>]
                 [] s.onfail = "ebadmsg" ->
                      [base EXCEPT !.rc = -EBADMSG, !.log = <<LogDebug("not RSA")>>]
                 [] s.onfail = "eio" ->
                      [base EXCEPT !.rc = -EIO, !.log = <<LogDebug("too short")>>]
                 [] OTHER -> [base EXCEPT !.returned = FALSE]    \* assert() failed: abort()

\* a failing provider call queues nothing or one record (which one does not matter to
\* the wrapper, so one code stands for all)
Pushes(q) == {p \in {<<>>, <<1>>} : Len(q) + Len(p) <= MaxQueue}

\* what the environment decides for one run: the fault, the records the failing provider
\* call queues, and whether log_openssl_errors() gets its buffer (drawn only when used)
Envs(steps, q) ==
    {e \in [flt : Faults(steps), push : Pushes(q), bufOk : BOOLEAN] :
        LET k == FailAt(steps, e.flt)
        IN /\ (k = 0 \/ steps[k].kind \notin {"call", "value"}) => e.push = <<>>
           /\ (k = 0 \/ steps[k].onfail # "drain") => e.bufOk}

Run(steps, e, q) == Exec(steps, e.flt, e.push, e.bufOk, q)

\* whether a run gets as far as the step named call (a value the provider reports there
\* is drawn only in such runs)
Reaches(steps, flt, call) ==
    LET k == FailAt(steps, flt)
    IN k = 0 \/ \E i \in 1..k : steps[i].call = call

(***************************************************************************)
(* The provider's digests.  EVP_MD_fetch()/EVP_get_digestbyname() resolve  *)
(* a name of the table; EVP_MD_get_size()/EVP_MD_size() report its size    *)
(* (0 for an extendable-output algorithm such as shake128).                *)
(***************************************************************************)
DigestAlgs == {"sha256", "sha1", "shake128", "nosuch"}
MdSize(alg) == CASE alg = "sha256" -> 32 [] alg = "sha1" -> 20 [] OTHER -> 0
MdKnown(alg) == alg \in {"sha256", "sha1", "shake128"}

\* the provider's digest of a message: an ideal hash, the pair itself
Digest(alg, msg) == <<alg, msg>>

NullBuf == [null |-> TRUE, cap |-> 0, len |-> 0, val |-> <<>>]
NullKey == [type |-> "NULL", bits |-> 0, n |-> 0, e |-> 0,
            curve |-> 0, group |-> "", x |-> 0, y |-> 0]
NoOut == [digest |-> NullBuf, digest_size |-> 0, key_size |-> 0, pkey |-> NullKey,
          n |-> <<>>, e |-> <<>>, curve_id |-> 0, x |-> <<>>, y |-> <<>>,
          ret |-> NullBuf, ret_size |-> 0]
NoMade == [by |-> "", n |-> <<>>, e |-> <<>>, curve_id |-> 0, x |-> <<>>, y |-> <<>>]

\* the caller's view after a wrapper ran: the slots a successful run writes
OkRun(r) == r.returned /\ r.rc = 0

(***************************************************************************)
(* Scoped locals.  A local is declared with a release (_cleanup_) and is   *)
(* initialised to NULL ("null"), not initialised ("uninit"), or declared   *)
(* by the call that acquires it ("at": the occ-th call named by).  It may  *)
(* pass its resource on (TAKE_PTR): to the caller on return ("return"), or *)
(* to another object once the call named taken has succeeded.  When the    *)
(* call leaves, the release of every local declared so far runs.           *)
(***************************************************************************)
Local(name, init, by, occ, taken) ==
    [name |-> name, init |-> init, by |-> by, occ |-> occ, taken |-> taken]

NoRes == [acquired |-> {}, released |-> {}, handed |-> {}, wild |-> {}]

\* where the occ-th call named call stands in the trace (0: it was not reached)
Occurrence(call, occ, trace) ==
    LET at == {i \in 1..Len(trace) :
                 /\ trace[i][1] = call
                 /\ Cardinality({j \in 1..i : trace[j][1] = call}) = occ}
    IN IF at = {} THEN 0 ELSE CHOOSE i \in at : TRUE

\* the step at pos was reached and did not fail (a failing step is the last of the trace)
Succeeded(pos, r) == pos > 0 /\ (pos < Len(r.calls) \/ r.failed = "")

Cleanup(locals, r) ==
    LET L == {locals[i] : i \in 1..Len(locals)}
        Pos(l) == Occurrence(l.by, l.occ, r.calls)
        Acquired(l) == Succeeded(Pos(l), r)
        Declared(l) == l.init \in {"null", "uninit"} \/ Pos(l) > 0
        Passed(l) == /\ Acquired(l)
                     /\ CASE l.taken = "" -> FALSE
                          [] l.taken = "return" -> OkRun(r)
                          [] OTHER -> Succeeded(Occurrence(l.taken, 1, r.calls), r)
    IN [acquired |-> {l.name : l \in {x \in L : Acquired(x)}},
        released |-> {l.name : l \in {x \in L : Declared(x) /\ Acquired(x) /\ ~Passed(x)}},
        handed |-> {l.name : l \in {x \in L : Passed(x)}},
        wild |-> {l.name : l \in {x \in L : Declared(x) /\ ~Acquired(x) /\ x.init = "uninit"}}]

\* the scoped locals of the operations, in the order of their declarations
Locals(name) ==
    CASE name = "openssl_digest_many" ->
            (IF gen >= 3 THEN << Local("md", "at", "EVP_MD_fetch", 1, "") >> ELSE <<>>)
            \o << Local("ctx", "at", "EVP_MD_CTX_new", 1, ""),
                  Local("buf", "at", "malloc", 1, "return") >>
      [] name = "rsa_encrypt_bytes" ->
            << Local("ctx", "null", "EVP_PKEY_CTX_new", 1, ""),
               Local("b", "null", "malloc", 1, "return") >>
      [] name = "rsa_pkey_from_n_e" ->
            << Local("pkey", "null", IF gen >= 3 THEN "EVP_PKEY_fromdata" ELSE "EVP_PKEY_new",
                     1, "return"),
               Local("ctx", "at", "EVP_PKEY_CTX_new_id", 1, ""),
               Local("bn_n", "at", "BN_bin2bn", 1, IF gen >= 3 THEN "" ELSE "RSA_set0_key"),
               Local("bn_e", "at", "BN_bin2bn", 2, IF gen >= 3 THEN "" ELSE "RSA_set0_key") >>
            \o (IF gen >= 3
                THEN << Local("bld", "at", "OSSL_PARAM_BLD_new", 1, ""),
                        Local("params", "at", "OSSL_PARAM_BLD_to_param", 1, "") >>
                ELSE << Local("rsa_key", "at", "RSA_new", 1, "EVP_PKEY_assign_RSA") >>)
      [] name = "digest_and_sign" ->
            << Local("mdctx", "at", "EVP_MD_CTX_new", 1, ""),
               Local("sig", "at", "malloc", 1, "return") >>
      [] name = "string_hashsum" ->
            << Local("hash", "null", "openssl_digest", 1, ""),
               Local("enc", "uninit", "hexmem", 1, "return") >>
      [] OTHER -> <<>>

\* the assignments to the output slots stand after the last step that can fail
Written(r, slots) == IF OkRun(r) THEN slots ELSE {}

\* made: m for a call that builds a key and succeeds, kept by a call that reads one
Finish(name, a, r, flt, slots, values, m) ==
    /\ op' = name
    /\ args' = a
    /\ returned' = r.returned
    /\ rc' = r.rc
    /\ calls' = r.calls
    /\ failed' = r.failed
    /\ fault' = flt
    /\ log' = r.log
    /\ errq' = r.errq
    /\ drain' = r.drain
    /\ wrote' = Written(r, slots)
    /\ out' = IF OkRun(r) THEN values ELSE NoOut
    /\ made' = IF OkRun(r) \/ m = made THEN m ELSE NoMade
    \* no release runs when an assert() ends the process
    /\ res' = IF r.returned \/ r.failed # "assert" THEN Cleanup(Locals(name), r) ELSE NoRes
    /\ UNCHANGED <<gen, pc, thr>>

(***************************************************************************)
(* openssl_digest_size()                                                   *)
(***************************************************************************)
\* the call of either provider generation (#if OPENSSL_VERSION_MAJOR >= 3 ... #else)
ByGen(new, old) == IF gen >= 3 THEN new ELSE old
MdFetch == ByGen("EVP_MD_fetch", "EVP_get_digestbyname")
MdGetSize == ByGen("EVP_MD_get_size", "EVP_MD_size")

\* a variant that accepts a reported size of zero
DigestSizeSteps_NoZeroCheck(alg) ==
    << Step(MdFetch, "call", MdKnown(alg), "eopnotsupp", alg),
       Step(MdGetSize, "value", TRUE, "drain", alg) >>

DigestSizeSteps(alg) ==
    << Step(MdFetch, "call", MdKnown(alg), "eopnotsupp", alg),
       Step(MdGetSize, "value", MdSize(alg) # 0, "drain", alg) >>

openssl_digest_size ==
    \E alg \in DigestAlgs :
      LET steps == DigestSizeSteps(alg)
      IN \E env \in Envs(steps, errq) :
           LET r == Run(steps, env, errq)
           IN Finish("openssl_digest_size", [alg |-> alg], r, env.flt,
                     {"digest_size"}, [NoOut EXCEPT !.digest_size = MdSize(alg)], NoMade)

\* the size a finalize call reports: the context's size, or (a provider defect) another
FinalSizes(size) == {size, size + 1}

(***************************************************************************)
(* openssl_digest_many()                                                   *)
(***************************************************************************)
Iovs == SeqsUpTo({<<1>>, <<2, 1>>}, MaxIov)

\* a variant that walks the descriptors from the last to the first
UpdateSteps_Backwards(call, data) ==
    [i \in 1..Len(data) |-> Step(call, "call", TRUE, "drain", data[Len(data) + 1 - i])]

\* for (size_t i = 0; i < n_data; i++) EVP_DigestUpdate(ctx, data[i]...)
UpdateSteps(call, data) ==
    [i \in 1..Len(data) |-> Step(call, "call", TRUE, "drain", data[i])]

\* what a context was fed: the arguments of its update calls, in call order
Fed(call, trace) ==
    LET idx == {i \in 1..Len(trace) : trace[i][1] = call}
        F[i \in 0..Len(trace)] ==
            IF i = 0 THEN <<>>
            ELSE IF i \in idx THEN F[i - 1] \o trace[i][2] ELSE F[i - 1]
    IN F[Len(trace)]

\* the arguments of the calls named call, in the order they were issued
ArgsOf(call, trace) ==
    LET F[i \in 0..Len(trace)] ==
            IF i = 0 THEN <<>>
            ELSE IF trace[i][1] = call THEN Append(F[i - 1], trace[i][2]) ELSE F[i - 1]
    IN F[Len(trace)]

Positions(call, trace) == {i \in 1..Len(trace) : trace[i][1] = call}

\* a variant without the assert(size == digest_size)
DigestManySteps_NoAssert(alg, data, finalSize) ==
    << Step(MdFetch, "call", MdKnown(alg), "eopnotsupp", alg),
       Step("EVP_MD_CTX_new", "call", TRUE, "drain", <<>>),
       Step("EVP_DigestInit_ex", "call", TRUE, "drain", alg) >>
    \o UpdateSteps("EVP_DigestUpdate", data)
    \o DigestSizeSteps(alg)
    \o << Step("malloc", "alloc", TRUE, "oom", MdSize(alg)),
          Step("EVP_DigestFinal_ex", "call", TRUE, "drain", <<>>) >>

DigestManySteps(alg, data, finalSize) ==
    << Step(MdFetch, "call", MdKnown(alg), "eopnotsupp", alg),
       Step("EVP_MD_CTX_new", "call", TRUE, "drain", <<>>),
       Step("EVP_DigestInit_ex", "call", TRUE, "drain", alg) >>
    \o UpdateSteps("EVP_DigestUpdate", data)
    \o DigestSizeSteps(alg)
    \o << Step("malloc", "alloc", TRUE, "oom", MdSize(alg)),
          Step("EVP_DigestFinal_ex", "call", TRUE, "drain", <<>>),
          Step("assert", "assert", finalSize = MdSize(alg), "abort", finalSize) >>

\* the slots openssl_digest_many() writes on success
DigestManyOut(alg, trace, finalSize, wantSize) ==
    [NoOut EXCEPT !.digest = [null |-> FALSE, cap |-> MdSize(alg), len |-> finalSize,
                              val |-> Digest(alg, Fed("EVP_DigestUpdate", trace))],
                  !.digest_size = IF wantSize THEN finalSize ELSE 0]

openssl_digest_many ==
    \E alg \in DigestAlgs, data \in Iovs, wantSize \in BOOLEAN :
      \E finalSize \in FinalSizes(MdSize(alg)) :
      LET steps == DigestManySteps(alg, data, finalSize)
      IN \E env \in Envs(steps, errq) :
           LET r == Run(steps, env, errq)
           IN /\ finalSize = MdSize(alg) \/ Reaches(steps, env.flt, "assert")
              /\ Finish("openssl_digest_many", [alg |-> alg, data |-> data, wantSize |-> wantSize],
                     r, env.flt,
                     IF wantSize THEN {"digest", "digest_size"} ELSE {"digest"},
                     DigestManyOut(alg, r.calls, finalSize, wantSize), NoMade)

(***************************************************************************)
(* openssl_hmac_many()                                                     *)
(***************************************************************************)
HmacKeys == {<<>>, <<1>>}
\* what the keyed context reports as its MAC size: nothing, the digest's size, or that
\* of a truncating mode
MacSizes(alg) == {0, MdSize(alg), MdSize(alg) \div 2}
MacGetSize == ByGen("EVP_MAC_CTX_get_mac_size", "HMAC_size")
MacInit == ByGen("EVP_MAC_init", "HMAC_Init_ex")
MacUpdate == ByGen("EVP_MAC_update", "HMAC_Update")
MacFinal == ByGen("EVP_MAC_final", "HMAC_Final")

HmacInitSteps(alg, key) ==
    IF gen >= 3
    THEN << Step("EVP_MAC_fetch", "call", TRUE, "drain", "HMAC"),
            Step("EVP_MAC_CTX_new", "call", TRUE, "drain", <<>>),
            Step("OSSL_PARAM_BLD_new", "call", TRUE, "drain", <<>>),
            Step("OSSL_PARAM_BLD_push_utf8_string", "call", TRUE, "drain", alg),
            Step("OSSL_PARAM_BLD_to_param", "call", TRUE, "drain", <<>>),
            Step("EVP_MAC_init", "call", TRUE, "drain", key) >>
    ELSE << Step("HMAC_CTX_new", "call", TRUE, "drain", <<>>),
            Step("HMAC_Init_ex", "call", TRUE, "drain", key) >>

\* a variant that accepts a MAC size of zero
HmacManySteps_NoZeroCheck(alg, key, data, macSize, finalSize) ==
    << Step(MdFetch, "call", MdKnown(alg), "eopnotsupp", alg) >>
    \o HmacInitSteps(alg, key)
    \o UpdateSteps(MacUpdate, data)
    \o << Step(MacGetSize, "value", TRUE, "drain", macSize),
          Step("malloc", "alloc", TRUE, "oom", macSize),
          Step(MacFinal, "call", TRUE, "drain", <<>>),
          Step("assert", "assert", finalSize = macSize, "abort", finalSize) >>

HmacManySteps(alg, key, data, macSize, finalSize) ==
    << Step(MdFetch, "call", MdKnown(alg), "eopnotsupp", alg) >>
    \o HmacInitSteps(alg, key)
    \o UpdateSteps(MacUpdate, data)
    \o << Step(MacGetSize, "value", macSize # 0, "drain", macSize),
          Step("malloc", "alloc", TRUE, "oom", macSize),
          Step(MacFinal, "call", TRUE, "drain", <<>>),
          Step("assert", "assert", finalSize = macSize, "abort", finalSize) >>

\* the provider's HMAC of a message under a key: an ideal MAC, the triple itself
Hmac(alg, key, msg) == <<alg, key, msg>>

\* the slots openssl_hmac_many() writes on success: buf was malloc(digest_size)
HmacManyOut(alg, key, trace, finalSize, wantSize) ==
    [NoOut EXCEPT !.digest = [null |-> FALSE, cap |-> ArgsOf("malloc", trace)[1],
                              len |-> finalSize,
                              val |-> Hmac(alg, key, Fed(MacUpdate, trace))],
                  !.digest_size = IF wantSize THEN finalSize ELSE 0]

openssl_hmac_many ==
    \E alg \in DigestAlgs, key \in HmacKeys, data \in Iovs, wantSize \in BOOLEAN :
      \E macSize \in MacSizes(alg) : \E finalSize \in FinalSizes(macSize) :
      LET steps == HmacManySteps(alg, key, data, macSize, finalSize)
      IN \E env \in Envs(steps, errq) :
           LET r == Run(steps, env, errq)
           IN /\ macSize = MdSize(alg) \/ Reaches(steps, env.flt, MacGetSize)
              /\ finalSize = macSize \/ Reaches(steps, env.flt, "assert")
              /\ Finish("openssl_hmac_many",
                     [alg |-> alg, key |-> key, data |-> data, wantSize |-> wantSize],
                     r, env.flt,
                     IF wantSize THEN {"digest", "digest_size"} ELSE {"digest"},
                     HmacManyOut(alg, key, r.calls, finalSize, wantSize), NoMade)

(***************************************************************************)
(* Big numbers.  BN_bin2bn() reads a big-endian buffer of any length;      *)
(* BN_num_bytes() and BN_bn2bin() give the shortest big-endian form.       *)
(***************************************************************************)
RECURSIVE BN_bin2bn(_)
BN_bin2bn(b) == IF b = <<>> THEN 0 ELSE BN_bin2bn(SubSeq(b, 1, Len(b) - 1)) * 256 + b[Len(b)]

RECURSIVE BN_num_bits(_)
BN_num_bits(v) == IF v = 0 THEN 0 ELSE 1 + BN_num_bits(v \div 2)

BN_num_bytes(v) == (BN_num_bits(v) + 7) \div 8

RECURSIVE BN_bn2bin(_)
BN_bn2bin(v) == IF v = 0 THEN <<>> ELSE Append(BN_bn2bin(v \div 256), v % 256)

KeyBytes == SeqsUpTo(ByteVals, MaxKeyLen)
\* exponents as callers pass them: 3 and 65537, plain and as a fixed-width htobe32()
ExpBytes == {<<3>>, <<1, 0, 1>>, <<0, 1, 0, 1>>}

(***************************************************************************)
(* rsa_pkey_from_n_e()                                                     *)
(***************************************************************************)
RsaFromSteps(n, e) ==
    << Step("EVP_PKEY_CTX_new_id", "call", TRUE, "drain", "RSA"),
       Step("BN_bin2bn", "call", TRUE, "drain", n),
       Step("BN_bin2bn", "call", TRUE, "drain", e) >>
    \o IF gen >= 3
       THEN << Step("EVP_PKEY_fromdata_init", "call", TRUE, "drain", <<>>),
               Step("OSSL_PARAM_BLD_new", "call", TRUE, "drain", <<>>),
               Step("OSSL_PARAM_BLD_push_BN", "call", TRUE, "drain", <<"n", BN_bin2bn(n)>>),
               Step("OSSL_PARAM_BLD_push_BN", "call", TRUE, "drain", <<"e", BN_bin2bn(e)>>),
               Step("OSSL_PARAM_BLD_to_param", "call", TRUE, "drain", <<>>),
               Step("EVP_PKEY_fromdata", "call", TRUE, "drain", <<>>) >>
       ELSE << Step("RSA_new", "call", TRUE, "drain", <<>>),
               Step("RSA_set0_key", "call", TRUE, "drain", <<BN_bin2bn(n), BN_bin2bn(e)>>),
               Step("EVP_PKEY_new", "call", TRUE, "drain", <<>>),
               Step("EVP_PKEY_assign_RSA", "call", TRUE, "drain", <<>>) >>

\* the key object the provider builds from what it was handed
RsaKeyOf(trace) ==
    LET ne == IF gen >= 3
              THEN LET ps == ArgsOf("OSSL_PARAM_BLD_push_BN", trace)
                   IN << (CHOOSE p \in {ps[i] : i \in 1..Len(ps)} : p[1] = "n")[2],
                         (CHOOSE p \in {ps[i] : i \in 1..Len(ps)} : p[1] = "e")[2] >>
              ELSE ArgsOf("RSA_set0_key", trace)[1]
    IN [NullKey EXCEPT !.type = "RSA", !.n = ne[1], !.e = ne[2], !.bits = BN_num_bits(ne[1])]

rsa_pkey_from_n_e ==
    \E n \in KeyBytes, e \in ExpBytes :
      LET steps == RsaFromSteps(n, e)
      IN \E env \in Envs(steps, errq) :
           LET r == Run(steps, env, errq)
           IN Finish("rsa_pkey_from_n_e", [n |-> n, e |-> e], r, env.flt,
                     {"pkey"}, [NoOut EXCEPT !.pkey = RsaKeyOf(r.calls)],
                     [NoMade EXCEPT !.by = "rsa_pkey_from_n_e", !.n = n, !.e = e])

(***************************************************************************)
(* rsa_pkey_to_n_e(), on the key handle the previous call handed back      *)
(***************************************************************************)
RsaToSteps(k) ==
    (IF gen >= 3
     THEN << Step("EVP_PKEY_get_bn_param", "call", k.type = "RSA", "drain", "n"),
             Step("EVP_PKEY_get_bn_param", "call", k.type = "RSA", "drain", "e") >>
     ELSE << Step("EVP_PKEY_get0_RSA", "call", k.type = "RSA", "drain", <<>>),
             Step("RSA_get0_n", "call", TRUE, "drain", <<>>),
             Step("RSA_get0_e", "call", TRUE, "drain", <<>>) >>)
    \o << Step("malloc", "alloc", TRUE, "oom", <<BN_num_bytes(k.n), BN_num_bytes(k.e)>>),
          Step("assert", "assert", Len(BN_bn2bin(k.n)) = BN_num_bytes(k.n), "abort", "n"),
          Step("assert", "assert", Len(BN_bn2bin(k.e)) = BN_num_bytes(k.e), "abort", "e") >>

\* a variant that hands the two buffers back in each other's slot
RsaToOut_Swapped(k) ==
    [NoOut EXCEPT !.n = BN_bn2bin(k.e), !.e = BN_bn2bin(k.n)]

\* *ret_n = TAKE_PTR(n); *ret_n_size = n_size; *ret_e = TAKE_PTR(e); *ret_e_size = e_size;
RsaToOut(k) ==
    [NoOut EXCEPT !.n = BN_bn2bin(k.n), !.e = BN_bn2bin(k.e)]

HasKey == op # "" /\ returned /\ "pkey" \in wrote

rsa_pkey_to_n_e ==
    /\ HasKey
    /\ LET k == out.pkey
           steps == RsaToSteps(k)
       IN \E env \in Envs(steps, errq) :
            LET r == Run(steps, env, errq)
            IN Finish("rsa_pkey_to_n_e", [pkey |-> k], r, env.flt,
                      {"n", "n_size", "e", "e_size"}, RsaToOut(k), made)

(***************************************************************************)
(* The provider's named curves.  NID_undef is 0; the numbers are those of  *)
(* <openssl/obj_mac.h>.  Each curve is y^2 = x^3 + a*x + b over the field  *)
(* of p elements; small fields stand in for the real ones.                 *)
(***************************************************************************)
NID_undef == 0
Curves == [nid : {415}, sn : {"prime256v1"}, p : {257}, a : {256}, b : {1}]
          \cup [nid : {715}, sn : {"secp384r1"}, p : {257}, a : {0}, b : {1}]
CurveIds == {415, 715, NID_undef}

CurveKnown(nid) == \E c \in Curves : c.nid = nid
CurveOf(nid) == CHOOSE c \in Curves : c.nid = nid
\* OSSL_EC_curve_nid2name() and OBJ_sn2nid()
OSSL_EC_curve_nid2name(nid) == IF CurveKnown(nid) THEN CurveOf(nid).sn ELSE ""
OBJ_sn2nid(sn) == IF \E c \in Curves : c.sn = sn
                  THEN (CHOOSE c \in Curves : c.sn = sn).nid ELSE NID_undef

\* y^2 = x^3 + a*x + b in the field of p elements (products reduced as they are formed)
OnCurve(c, x, y) ==
    LET xr == x % c.p
        yr == y % c.p
        x3 == (((xr * xr) % c.p) * xr) % c.p
        ax == (c.a * xr) % c.p
    IN (yr * yr) % c.p = (x3 + ax + c.b) % c.p
PointsOf(c) == {pt \in (0..(c.p - 1)) \X (0..(c.p - 1)) : OnCurve(c, pt[1], pt[2])}

\* EC_POINT_set_affine_coordinates(): fails for a point that is not on the curve.  A
\* coordinate that is no field element (>= p) is either refused or taken modulo p.
SetAffineOk(nid, x, y, reduces) ==
    /\ CurveKnown(nid)
    /\ LET c == CurveOf(nid)
       IN /\ reduces \/ (x < c.p /\ y < c.p)
          /\ OnCurve(c, x % c.p, y % c.p)

CoordBytes == SeqsUpTo({0, 1}, MaxKeyLen)

(***************************************************************************)
(* ecc_pkey_from_curve_x_y()                                               *)
(***************************************************************************)
\* a variant that does not have the provider check the point
EccFromSteps_NoPointCheck(curve_id, x, y, reduces) ==
    << Step("EVP_PKEY_CTX_new_id", "call", TRUE, "drain", "EC"),
       Step("BN_bin2bn", "call", TRUE, "drain", x),
       Step("BN_bin2bn", "call", TRUE, "drain", y),
       Step("EC_GROUP_new_by_curve_name", "call", CurveKnown(curve_id), "drain", curve_id),
       Step("EC_POINT_new", "call", TRUE, "drain", <<>>),
       Step("EC_POINT_set_affine_coordinates", "call", TRUE, "drain",
            <<BN_bin2bn(x), BN_bin2bn(y)>>) >>

EccFromSteps(curve_id, x, y, reduces) ==
    << Step("EVP_PKEY_CTX_new_id", "call", TRUE, "drain", "EC"),
       Step("BN_bin2bn", "call", TRUE, "drain", x),
       Step("BN_bin2bn", "call", TRUE, "drain", y),
       Step("EC_GROUP_new_by_curve_name", "call", CurveKnown(curve_id), "drain", curve_id),
       Step("EC_POINT_new", "call", TRUE, "drain", <<>>),
       Step("EC_POINT_set_affine_coordinates", "call",
            SetAffineOk(curve_id, BN_bin2bn(x), BN_bin2bn(y), reduces), "drain",
            <<BN_bin2bn(x), BN_bin2bn(y)>>) >>

\* the second half, one per provider generation
EccWrapSteps(curve_id) ==
    IF gen >= 3
    THEN << Step("EVP_PKEY_fromdata_init", "call", TRUE, "drain", <<>>),
            Step("OSSL_PARAM_BLD_new", "call", TRUE, "drain", <<>>),
            Step("OSSL_PARAM_BLD_push_utf8_string", "call", TRUE, "drain",
                 OSSL_EC_curve_nid2name(curve_id)),
            Step("EC_POINT_point2buf", "call", TRUE, "drain", <<>>),
            Step("OSSL_PARAM_BLD_push_octet_string", "call", TRUE, "drain", <<>>),
            Step("OSSL_PARAM_BLD_to_param", "call", TRUE, "drain", <<>>),
            Step("EVP_PKEY_fromdata", "call", TRUE, "drain", <<>>) >>
    ELSE << Step("EC_KEY_new", "call", TRUE, "drain", <<>>),
            Step("EC_KEY_set_group", "call", TRUE, "drain", curve_id),
            Step("EC_KEY_set_public_key", "call", TRUE, "drain", <<>>),
            Step("EVP_PKEY_new", "call", TRUE, "drain", <<>>),
            Step("EVP_PKEY_assign_EC_KEY", "call", TRUE, "drain", <<>>) >>

\* the key object the provider builds: the group as it was named to it (by short name
\* under generation 3, by number before) and the point's field elements
EccKeyOf(trace) ==
    LET pt == ArgsOf("EC_POINT_set_affine_coordinates", trace)[1]
        nid == ArgsOf("EC_GROUP_new_by_curve_name", trace)[1]
        c == CurveOf(nid)
    IN [NullKey EXCEPT !.type = "EC",
                       !.group = IF gen >= 3
                                 THEN ArgsOf("OSSL_PARAM_BLD_push_utf8_string", trace)[1] ELSE "",
                       !.curve = IF gen >= 3 THEN NID_undef ELSE ArgsOf("EC_KEY_set_group", trace)[1],
                       !.x = pt[1] % c.p, !.y = pt[2] % c.p]

ecc_pkey_from_curve_x_y ==
    \E curve_id \in CurveIds, x \in CoordBytes, y \in CoordBytes, reduces \in BOOLEAN :
      LET steps == EccFromSteps(curve_id, x, y, reduces) \o EccWrapSteps(curve_id)
      IN \E env \in Envs(steps, errq) :
           LET r == Run(steps, env, errq)
           IN /\ reduces \/ Reaches(steps, env.flt, "EC_POINT_set_affine_coordinates")
              /\ Finish("ecc_pkey_from_curve_x_y",
                        [curve_id |-> curve_id, x |-> x, y |-> y, reduces |-> reduces],
                        r, env.flt, {"pkey"}, [NoOut EXCEPT !.pkey = EccKeyOf(r.calls)],
                        [NoMade EXCEPT !.by = "ecc_pkey_from_curve_x_y",
                                       !.curve_id = curve_id, !.x = x, !.y = y])

(***************************************************************************)
(* ecc_pkey_to_curve_x_y(), on the key handle the previous call handed back *)
(***************************************************************************)
\* the curve id the wrapper recovers: by name lookup, or from the group
EccCurveId(k) == IF gen >= 3 THEN OBJ_sn2nid(k.group) ELSE k.curve

EccToSteps(k) ==
    (IF gen >= 3
     THEN << Step("EVP_PKEY_get_utf8_string_param", "call", k.type = "EC", "drain", "size"),
             Step("new", "alloc", TRUE, "oom", <<>>),
             Step("EVP_PKEY_get_utf8_string_param", "call", TRUE, "drain", k.group),
             Step("OBJ_sn2nid", "value", EccCurveId(k) # NID_undef, "drain", EccCurveId(k)),
             Step("EVP_PKEY_get_bn_param", "call", TRUE, "drain", "x"),
             Step("EVP_PKEY_get_bn_param", "call", TRUE, "drain", "y") >>
     ELSE << Step("EVP_PKEY_get0_EC_KEY", "call", k.type = "EC", "drain", <<>>),
             Step("EC_KEY_get0_group", "call", TRUE, "drain", <<>>),
             Step("EC_GROUP_get_curve_name", "value", EccCurveId(k) # NID_undef, "drain",
                  EccCurveId(k)),
             Step("EC_KEY_get0_public_key", "call", TRUE, "drain", <<>>),
             Step("BN_new", "call", TRUE, "drain", <<>>),
             Step("EC_POINT_get_affine_coordinates", "call", TRUE, "drain", <<>>) >>)
    \o << Step("malloc", "alloc", TRUE, "oom", <<BN_num_bytes(k.x), BN_num_bytes(k.y)>>),
          Step("assert", "assert", Len(BN_bn2bin(k.x)) = BN_num_bytes(k.x), "abort", "x"),
          Step("assert", "assert", Len(BN_bn2bin(k.y)) = BN_num_bytes(k.y), "abort", "y") >>

EccSlots == {"curve_id", "x", "x_size", "y", "y_size"}

\* if (ret_curve_id) *ret_curve_id = curve_id; if (ret_x) *ret_x = TAKE_PTR(x); ...
EccToOut(k, want) ==
    [NoOut EXCEPT !.curve_id = IF "curve_id" \in want THEN EccCurveId(k) ELSE 0,
                  !.x = IF "x" \in want THEN BN_bn2bin(k.x) ELSE <<>>,
                  !.y = IF "y" \in want THEN BN_bn2bin(k.y) ELSE <<>>]

ecc_pkey_to_curve_x_y ==
    /\ HasKey
    /\ \E want \in {EccSlots, {"curve_id"}, {}} :
         LET k == out.pkey
             steps == EccToSteps(k)
         IN \E env \in Envs(steps, errq) :
              LET r == Run(steps, env, errq)
              IN Finish("ecc_pkey_to_curve_x_y", [pkey |-> k, want |-> want], r, env.flt,
                        want, EccToOut(k, want), made)

(***************************************************************************)
(* ecc_pkey_new()                                                          *)
(***************************************************************************)
EccNewSteps(curve_id) ==
    << Step("EVP_PKEY_CTX_new_id", "call", TRUE, "drain", "EC"),
       Step("EVP_PKEY_keygen_init", "call", TRUE, "drain", <<>>),
       Step("EVP_PKEY_CTX_set_ec_paramgen_curve_nid", "call", CurveKnown(curve_id),
            "drain", curve_id),
       Step("EVP_PKEY_keygen", "call", TRUE, "drain", <<>>) >>

\* the points a generated key can be drawn from: those of the curve that fit the model
GenPoints(curve_id) ==
    IF CurveKnown(curve_id)
    THEN {pt \in PointsOf(CurveOf(curve_id)) : pt[1] <= 1 /\ pt[2] <= 1} ELSE {<<0, 0>>}

ecc_pkey_new ==
    \E curve_id \in CurveIds :
      LET steps == EccNewSteps(curve_id)
      IN \E env \in Envs(steps, errq), pt \in GenPoints(curve_id) :
           LET r == Run(steps, env, errq)
           IN Finish("ecc_pkey_new", [curve_id |-> curve_id], r, env.flt, {"pkey"},
                     [NoOut EXCEPT !.pkey =
                         [NullKey EXCEPT !.type = "EC",
                                         !.group = IF gen >= 3
                                                   THEN OSSL_EC_curve_nid2name(curve_id) ELSE "",
                                         !.curve = IF gen >= 3 THEN NID_undef ELSE curve_id,
                                         !.x = pt[1], !.y = pt[2]]],
                     [NoMade EXCEPT !.by = "ecc_pkey_new", !.curve_id = curve_id])

(***************************************************************************)
(* rsa_pkey_to_suitable_key_size(), on a key handle of the caller's (from  *)
(* an X.509 certificate, say): its family and what EVP_PKEY_bits() reports *)
(* (the number of bits, 0 when the provider cannot tell).                  *)
(***************************************************************************)
KeyFamilies == {"RSA", "EC"}
KeyBits == {0, 1, 7, 8, 15, 16, 17, 31, 32, 1024, 2047, 2048, 4096}

\* a variant that leaves no headroom for the padding
SuitableKeySize_NoHeadroom(bits) == bits \div 8

\* suitable_key_size = bits / 8 / 2;
SuitableKeySize(bits) == (bits \div 8) \div 2

SuitableSteps(k) ==
    << Step("EVP_PKEY_base_id", "check", k.type = "RSA", "ebadmsg", k.type),
       Step("EVP_PKEY_bits", "check", TRUE, "eio", k.bits),
       Step("suitable_key_size < 1", "check", SuitableKeySize(k.bits) >= 1, "eio",
            SuitableKeySize(k.bits)) >>

rsa_pkey_to_suitable_key_size ==
    \E type \in KeyFamilies, bits \in KeyBits :
      LET k == [NullKey EXCEPT !.type = type, !.bits = bits]
          steps == SuitableSteps(k)
      IN \E env \in Envs(steps, errq) :
           LET r == Run(steps, env, errq)
           IN Finish("rsa_pkey_to_suitable_key_size", [pkey |-> k], r, env.flt,
                     {"key_size"}, [NoOut EXCEPT !.key_size = SuitableKeySize(k.bits)], NoMade)

(***************************************************************************)
(* The two-phase size protocol of rsa_encrypt_bytes() and digest_and_sign(): *)
(* the provider call is made with a null output to learn the size, the     *)
(* buffer is allocated, and the call is made again with the buffer.  The   *)
(* second call is told the capacity through the size variable the first    *)
(* call set; it fails when what it has to write does not fit and reports   *)
(* what it wrote otherwise.                                                *)
(***************************************************************************)
\* the keys handed to the two operations, and what the provider reports for them: the
\* size the null-output call asks for and the sizes an output can turn out to have
CryptKeys == {[NullKey EXCEPT !.type = "RSA", !.bits = 2048],
              [NullKey EXCEPT !.type = "EC", !.bits = 256]}
NeedSize(k) == IF k.type = "RSA" THEN k.bits \div 8 ELSE 72
ActualSizes(k) == IF k.type = "RSA" THEN {k.bits \div 8} ELSE {70, 72}

\* a variant that allocates one byte less than the second call is told
TwoPhaseSteps_ShortAlloc(call, in, need, actual, oom) ==
    << Step(call, "call", TRUE, "drain", [out |-> "NULL", cap |-> 0, size |-> need, in |-> in]),
       Step("malloc", "alloc", TRUE, oom, need - 1),
       Step(call, "call", actual <= need, "drain",
            [out |-> "buf", cap |-> need, size |-> actual, in |-> in]) >>

\* call(ctx, NULL, &l, in); b = malloc(l); call(ctx, b, &l, in)
TwoPhaseSteps(call, in, need, actual, oom) ==
    << Step(call, "call", TRUE, "drain", [out |-> "NULL", cap |-> 0, size |-> need, in |-> in]),
       Step("malloc", "alloc", TRUE, oom, need),
       Step(call, "call", actual <= need, "drain",
            [out |-> "buf", cap |-> need, size |-> actual, in |-> in]) >>

\* *ret = TAKE_PTR(b); *ret_size = l: the buffer as allocated, the size as last reported
TwoPhaseOut(trace) ==
    LET last == trace[Len(trace)][2]
    IN [NoOut EXCEPT !.ret = [null |-> FALSE, cap |-> ArgsOf("malloc", trace)[1],
                              len |-> last.size, val |-> <<trace[Len(trace)][1], last.in>>],
                     !.ret_size = last.size]

(***************************************************************************)
(* rsa_encrypt_bytes()                                                     *)
(***************************************************************************)
Secrets == {<<>>, <<1, 255>>}

RsaEncryptSteps(k, secret, actual) ==
    << Step("EVP_PKEY_CTX_new", "call", TRUE, "drain", k.type),
       Step("EVP_PKEY_encrypt_init", "call", k.type = "RSA", "drain", <<>>),
       Step("EVP_PKEY_CTX_set_rsa_padding", "call", k.type = "RSA", "drain", "PKCS1") >>
    \o TwoPhaseSteps("EVP_PKEY_encrypt", [ptr |-> "decrypted_key", len |-> Len(secret)],
                     NeedSize(k), actual, "enomem")

rsa_encrypt_bytes ==
    \E k \in CryptKeys, secret \in Secrets :
      \E actual \in ActualSizes(k) :
        LET steps == RsaEncryptSteps(k, secret, actual)
        IN \E env \in Envs(steps, errq) :
             LET r == Run(steps, env, errq)
             IN Finish("rsa_encrypt_bytes", [pkey |-> k, decrypted_key |-> secret], r, env.flt,
                       {"ret", "ret_size"}, TwoPhaseOut(r.calls), NoMade)

(***************************************************************************)
(* digest_and_sign()                                                       *)
(***************************************************************************)
SIZE_MAX == -1          \* (size_t) -1, the "unspecified length" marker

\* the caller's data: no pointer, or a pointer to bytes that a NUL follows
NullData == [null |-> TRUE, mem |-> <<>>]
SignData == {NullData} \cup {[null |-> FALSE, mem |-> m] : m \in SeqsUpTo({0, 1}, MaxKeyLen)}
SignSizes(data) == {0, SIZE_MAX} \cup (IF data.null THEN {1} ELSE 1..Len(data.mem))

\* strlen(): the bytes before the first NUL
RECURSIVE strlen(_)
strlen(mem) == IF mem = <<>> \/ Head(mem) = 0 THEN 0 ELSE 1 + strlen(Tail(mem))

\* a variant that hands the caller's pointer and size on as they are
SignInput_AsGiven(data, size) ==
    [ptr |-> IF data.null THEN "NULL" ELSE "data", len |-> size]

\* if (size == 0) data = ""; else if (size == SIZE_MAX) size = strlen(data);
SignInput(data, size) ==
    IF size = 0 THEN [ptr |-> "empty string", len |-> 0]
    ELSE [ptr |-> IF data.null THEN "NULL" ELSE "data",
          len |-> IF size = SIZE_MAX THEN strlen(data.mem) ELSE size]

DigestAndSignSteps(md, k, data, size, actual) ==
    << Step("assert", "assert", size = 0 \/ ~data.null, "abort", "data"),
       Step("EVP_MD_CTX_new", "call", TRUE, "drain", <<>>),
       Step("EVP_DigestSignInit", "call", MdKnown(md), "drain", md) >>
    \o TwoPhaseSteps("EVP_DigestSign", SignInput(data, size), NeedSize(k), actual, "oom")

digest_and_sign ==
    \E k \in CryptKeys, data \in SignData :
      \E size \in SignSizes(data), actual \in ActualSizes(k) :
        LET steps == DigestAndSignSteps("sha256", k, data, size, actual)
        IN \E env \in Envs(steps, errq) :
             LET r == Run(steps, env, errq)
             IN Finish("digest_and_sign",
                       [md |-> "sha256", pkey |-> k, data |-> data, size |-> size],
                       r, env.flt, {"ret", "ret_size"}, TwoPhaseOut(r.calls), NoMade)

(***************************************************************************)
(* openssl_pkey_from_pem()                                                 *)
(***************************************************************************)
\* the buffers handed in: one that holds a public key, one that holds none
Pems == {[key |-> [NullKey EXCEPT !.type = "RSA", !.bits = 2048, !.n = 255, !.e = 3]],
         [key |-> NullKey]}

PemSteps(pem) ==
    << Step("fmemopen", "alloc", TRUE, "oom", <<>>),
       Step("PEM_read_PUBKEY", "call", pem.key # NullKey, "drain", <<>>) >>

openssl_pkey_from_pem ==
    \E pem \in Pems :
      LET steps == PemSteps(pem)
      IN \E env \in Envs(steps, errq) :
           LET r == Run(steps, env, errq)
           IN Finish("openssl_pkey_from_pem", [pem |-> pem], r, env.flt, {"pkey"},
                     [NoOut EXCEPT !.pkey = pem.key],
                     [NoMade EXCEPT !.by = "openssl_pkey_from_pem"])

(***************************************************************************)
(* rsa_pkey_new()                                                          *)
(***************************************************************************)
RsaNewBits == {0, 2048}

RsaNewSteps(bits) ==
    << Step("EVP_PKEY_CTX_new_id", "call", TRUE, "drain", "RSA"),
       Step("EVP_PKEY_keygen_init", "call", TRUE, "drain", <<>>),
       Step("EVP_PKEY_CTX_set_rsa_keygen_bits", "call", bits > 0, "drain", bits),
       Step("EVP_PKEY_keygen", "call", TRUE, "drain", <<>>) >>

rsa_pkey_new ==
    \E bits \in RsaNewBits :
      LET steps == RsaNewSteps(bits)
      IN \E env \in Envs(steps, errq) :
           LET r == Run(steps, env, errq)
           IN Finish("rsa_pkey_new", [bits |-> bits], r, env.flt, {"pkey"},
                     [NoOut EXCEPT !.pkey = [NullKey EXCEPT !.type = "RSA", !.bits = bits,
                                                            !.n = 255, !.e = 3]],
                     [NoMade EXCEPT !.by = "rsa_pkey_new"])

(***************************************************************************)
(* pubkey_fingerprint(): the digest of the DER encoding of the public key. *)
(* md is a digest the caller resolved.                                     *)
(***************************************************************************)
Der(k) == <<"der", k.type, k.bits>>
FingerprintMds == {"sha256", "shake128"}

PubkeyFingerprintSteps(k, md, finalSize) ==
    << Step("i2d_PublicKey", "call", TRUE, "drain", "NULL"),
       Step("malloc", "alloc", TRUE, "oom", "sz"),
       Step("i2d_PublicKey", "call", TRUE, "drain", "dd"),
       Step("EVP_MD_CTX_new", "call", TRUE, "drain", <<>>),
       Step("EVP_DigestInit_ex", "call", TRUE, "drain", md),
       Step("EVP_DigestUpdate", "call", TRUE, "drain", Der(k)),
       Step("assert", "assert", MdSize(md) > 0, "abort", MdSize(md)),
       Step("malloc", "alloc", TRUE, "oom", MdSize(md)),
       Step("EVP_DigestFinal_ex", "call", TRUE, "drain", <<>>),
       Step("assert", "assert", finalSize = MdSize(md), "abort", finalSize) >>

pubkey_fingerprint ==
    \E k \in CryptKeys, md \in FingerprintMds :
      \E finalSize \in FinalSizes(MdSize(md)) :
        LET steps == PubkeyFingerprintSteps(k, md, finalSize)
        IN \E env \in Envs(steps, errq) :
             LET r == Run(steps, env, errq)
             IN /\ finalSize = MdSize(md) \/ Reaches(steps, env.flt, "EVP_DigestFinal_ex")
                /\ Finish("pubkey_fingerprint", [pk |-> k, md |-> md], r, env.flt,
                          {"ret", "ret_size"},
                          [NoOut EXCEPT !.ret = [null |-> FALSE, cap |-> MdSize(md),
                                                 len |-> finalSize,
                                                 val |-> Digest(md, Fed("EVP_DigestUpdate", r.calls))],
                                        !.ret_size = MdSize(md)],
                          NoMade)

(***************************************************************************)
(* x509_fingerprint(), in a build with the provider                        *)
(***************************************************************************)
Certs == {<<"cert", 1>>, <<"cert", 2>>}

X509FingerprintSteps(cert) ==
    << Step("i2d_X509", "call", TRUE, "drain", cert),
       Step("sha256_direct", "check", TRUE, "eio", <<"der", cert>>) >>

x509_fingerprint ==
    \E cert \in Certs :
      LET steps == X509FingerprintSteps(cert)
      IN \E env \in Envs(steps, errq) :
           LET r == Run(steps, env, errq)
           IN Finish("x509_fingerprint", [cert |-> cert], r, env.flt, {"ret"},
                     [NoOut EXCEPT !.ret = [null |-> FALSE, cap |-> 32, len |-> 32,
                                            val |-> Digest("sha256", <<"der", cert>>)]],
                     NoMade)

(***************************************************************************)
(* string_hashsum(), in a build that prefers the provider for hashing: the *)
(* digest of one buffer, hex-encoded.  enc is declared with a release and  *)
(* without an initialiser: when the digest step fails, the release acts on *)
(* whatever the variable holds, which is nothing (a null) or not, and then *)
(* the call returns or the process dies in the allocator.                  *)
(***************************************************************************)
HashInputs == {<<>>, <<2, 1>>}

\* r = openssl_digest(md_algorithm, s, len, &hash, &hash_size); enc = hexmem(hash, hash_size)
StringHashsumSteps(alg, str) ==
    << Step(MdFetch, "call", MdKnown(alg), "eopnotsupp", alg),
       Step("EVP_MD_CTX_new", "call", TRUE, "drain", <<>>),
       Step("EVP_DigestInit_ex", "call", TRUE, "drain", alg),
       Step("EVP_DigestUpdate", "call", TRUE, "drain", str) >>
    \o DigestSizeSteps(alg)
    \o << Step("malloc", "alloc", TRUE, "oom", MdSize(alg)),
          Step("EVP_DigestFinal_ex", "call", TRUE, "drain", <<>>),
          Step("openssl_digest", "check", TRUE, "eio", <<>>),
          Step("hexmem", "alloc", TRUE, "enomem", MdSize(alg)) >>

\* what free() of an indeterminate pointer can do to the call: nothing, or end the process
WildFree(r) ==
    IF Cleanup(Locals("string_hashsum"), r).wild = {}
    THEN {r}
    ELSE {r, [r EXCEPT !.returned = FALSE]}

string_hashsum ==
    \E alg \in DigestAlgs, str \in HashInputs :
      LET steps == StringHashsumSteps(alg, str)
      IN \E env \in Envs(steps, errq) :
           \E r \in WildFree(Run(steps, env, errq)) :
              Finish("string_hashsum", [s |-> str, md_algorithm |-> alg], r, env.flt, {"ret"},
                     [NoOut EXCEPT !.ret = [null |-> FALSE, cap |-> 2 * MdSize(alg) + 1,
                                            len |-> 2 * MdSize(alg),
                                            val |-> <<"hex", Digest(alg, str)>>]],
                     NoMade)

Init ==
    /\ gen \in {1, 3}
    /\ errq = <<>>
    /\ op = ""
    /\ args = <<>>
    /\ returned = TRUE
    /\ rc = 0
    /\ wrote = {}
    /\ out = NoOut
    /\ calls = <<>>
    /\ failed = ""
    /\ fault = 0
    /\ log = <<>>
    /\ drain = NoDrain
    /\ made = NoMade
    /\ pc = ""
    /\ thr = <<>>
    /\ res = NoRes

\* the caller takes the results, releases what was handed to it, and is ready to call again
caller_release ==
    /\ op # ""
    /\ returned
    /\ op' = ""
    /\ args' = <<>>
    /\ rc' = 0
    /\ wrote' = {}
    /\ out' = NoOut
    /\ calls' = <<>>
    /\ failed' = ""
    /\ fault' = 0
    /\ log' = <<>>
    /\ drain' = NoDrain
    /\ made' = NoMade
    /\ res' = NoRes
    /\ UNCHANGED <<gen, errq, returned, pc, thr>>

Idle == op = "" /\ returned

Next ==
    \/ Idle /\ openssl_digest_size
    \/ Idle /\ openssl_digest_many
    \/ Idle /\ openssl_hmac_many
    \/ Idle /\ rsa_pkey_from_n_e
    \/ rsa_pkey_to_n_e
    \/ Idle /\ ecc_pkey_from_curve_x_y
    \/ ecc_pkey_to_curve_x_y
    \/ Idle /\ ecc_pkey_new
    \/ Idle /\ rsa_pkey_to_suitable_key_size
    \/ Idle /\ rsa_encrypt_bytes
    \/ Idle /\ digest_and_sign
    \/ Idle /\ openssl_pkey_from_pem
    \/ Idle /\ rsa_pkey_new
    \/ Idle /\ pubkey_fingerprint
    \/ Idle /\ x509_fingerprint
    \/ Idle /\ string_hashsum
    \/ caller_release

Spec == Init /\ [][Next]_vars

(***************************************************************************)
(* log_openssl_errors() on its own, statement by statement: the macro of   *)
(* lines 12-21 around the loop of lines 22-33, entered with any queue.     *)
(* pc names the statement that runs next; rc stands for the macro's value  *)
(* (R while the loop runs).                                                *)
(***************************************************************************)
DrainQueues == SeqsUpTo(ErrCodes, MaxQueue + 1)

InitDrain ==
    /\ gen \in {1, 3}
    /\ errq \in DrainQueues
    /\ op = "log_openssl_errors"
    /\ args = <<>>
    /\ returned = TRUE
    /\ rc = 0
    /\ wrote = {}
    /\ out = NoOut
    /\ calls = <<>>
    /\ failed = ""
    /\ fault = 0
    /\ log = <<>>
    /\ drain = [ran |-> TRUE, entry |-> errq, bufOk |-> FALSE]
    /\ made = NoMade
    /\ pc = "malloc"
    /\ thr = <<>>
    /\ res = NoRes

\* BUF = malloc(MAX); !BUF ? log_oom_debug() : ...; int R = 0
DrainMalloc ==
    /\ pc = "malloc"
    /\ \E ok \in BOOLEAN :
          /\ drain' = [drain EXCEPT !.bufOk = ok]
          /\ IF ok
             THEN rc' = 0 /\ log' = log /\ pc' = "ERR_get_error"
             ELSE rc' = -ENOMEM /\ log' = Append(log, LogOom) /\ pc' = "done"
    /\ UNCHANGED <<gen, errq, op, args, returned, wrote, out, calls, failed, fault, made, thr, res>>

\* E = ERR_get_error(); if (E == 0) break; ERR_error_string_n(); R = log_debug_errno(EIO)
DrainGetError ==
    /\ pc = "ERR_get_error"
    /\ IF errq = <<>>
       THEN pc' = "fallback" /\ UNCHANGED <<errq, log, rc>>
       ELSE /\ errq' = Tail(errq)
            /\ log' = Append(log, LogErr(Head(errq)))
            /\ rc' = -EIO
            /\ pc' = "ERR_get_error"
    /\ UNCHANGED <<gen, op, args, returned, wrote, out, calls, failed, fault, drain, made, thr, res>>

\* a macro without the ?: operand, whose value is R as the loop left it
DrainFallback_None ==
    /\ pc = "fallback"
    /\ pc' = "done"
    /\ UNCHANGED <<gen, errq, op, args, returned, rc, wrote, out, calls, failed, fault, log,
                   drain, made, thr, res>>

\* R ?: log_debug_errno(SYNTHETIC_ERRNO(EIO), fmt ": No openssl errors.")
DrainFallback ==
    /\ pc = "fallback"
    /\ IF rc # 0
       THEN UNCHANGED <<rc, log>>
       ELSE rc' = -EIO /\ log' = Append(log, LogNoErrors)
    /\ pc' = "done"
    /\ UNCHANGED <<gen, errq, op, args, returned, wrote, out, calls, failed, fault, drain, made, thr, res>>

NextDrain ==
    \/ DrainMalloc
    \/ DrainGetError
    \/ DrainFallback

\* the macro is straight-line code around one loop, run by one thread: a statement that
\* can run does run
SpecDrain == InitDrain /\ [][NextDrain]_vars /\ WF_vars(NextDrain)

(***************************************************************************)
(* Two threads, each running one operation that shares no handle with the  *)
(* other's, one provider call (or drain statement) at a time.  The error   *)
(* queue ERR_get_error() reads is the calling thread's; the digest context *)
(* is a local of the call (line 109).  A record a thread's failing call    *)
(* queues carries the thread's number, so that records can be told apart.  *)
(***************************************************************************)
Threads == {1, 2}

\* the queue ERR_get_error() pops for thread t: a variant with one queue for all
QueueOf_Shared(t) == 1

\* ERR_get_error(): the queue of the calling thread
QueueOf(t) == t

\* EVP_MD_CTX *ctx = EVP_MD_CTX_new(): a context of this call only
CtxOf(t) == t

\* what a thread digests: descriptors holding its own number
ThreadIovs(t) == SeqsUpTo({<<t>>}, MaxIov)
ThreadAlg(t) == IF t = 1 THEN "sha256" ELSE "sha1"

NoRun == [op |-> "", alg |-> "", steps |-> <<>>, pos |-> 0, flt |-> 0, push |-> <<>>,
          bufOk |-> TRUE, phase |-> "idle", rc |-> 0, log |-> <<>>, q0 |-> <<>>, val |-> <<>>]

InitThreads ==
    /\ gen \in {1, 3}
    /\ errq = <<>>
    /\ op = ""
    /\ args = <<>>
    /\ returned = TRUE
    /\ rc = 0
    /\ wrote = {}
    /\ out = NoOut
    /\ calls = <<>>
    /\ failed = ""
    /\ fault = 0
    /\ log = <<>>
    /\ drain = NoDrain
    /\ made = NoMade
    /\ pc = ""
    /\ res = NoRes
    /\ \E stale \in SUBSET Threads :
          thr = [run |-> [t \in Threads |-> NoRun],
                 q |-> [t \in Threads |-> IF t \in stale THEN <<t>> ELSE <<>>],
                 ctx |-> [t \in Threads |-> <<>>]]

ThreadUnchanged ==
    UNCHANGED <<gen, errq, op, args, returned, rc, wrote, out, calls, failed, fault, log,
                drain, made, pc, res>>

\* the thread calls openssl_digest_size() or openssl_digest_many()
ThreadEnter(t) ==
    /\ thr.run[t].phase = "idle"
    /\ \E o \in {"openssl_digest_size", "openssl_digest_many"} :
       \E alg \in (IF o = "openssl_digest_size" THEN DigestAlgs ELSE {ThreadAlg(t)}) :
       \E data \in (IF o = "openssl_digest_size" THEN {<<>>} ELSE ThreadIovs(t)) :
          thr' = [thr EXCEPT !.run[t] =
                     [NoRun EXCEPT !.op = o, !.alg = alg,
                                   !.steps = IF o = "openssl_digest_size"
                                             THEN DigestSizeSteps(alg)
                                             ELSE DigestManySteps(alg, data, MdSize(alg)),
                                   !.pos = 1, !.phase = "run",
                                   !.q0 = thr.q[QueueOf(t)]]]
    /\ ThreadUnchanged

\* what a failing step that does not drain makes the wrapper return
ReturnOf(s) ==
    CASE s.onfail = "oom" -> [rc |-> -ENOMEM, log |-> <<LogOom>>]
      [] s.onfail = "enomem" -> [rc |-> -ENOMEM, log |-> <<>>]
      [] s.onfail = "eopnotsupp" -> [rc |-> -EOPNOTSUPP, log |-> <<LogDebug("not supported")>>]
      [] s.onfail = "ebadmsg" -> [rc |-> -EBADMSG, log |-> <<LogDebug("not RSA")>>]
      [] OTHER -> [rc |-> -EIO, log |-> <<LogDebug("too short")>>]

\* the thread's next step: a provider call, an allocation or a test of the wrapper
ThreadCall(t) ==
    LET me == thr.run[t]
        s == me.steps[me.pos]
        c == CtxOf(t)
    IN /\ me.phase = "run"
       /\ \E fail \in (IF s.kind \in {"call", "alloc"} THEN BOOLEAN ELSE {FALSE}) :
            IF s.ok /\ ~fail
            THEN thr' = [thr EXCEPT
                    !.ctx[c] = IF s.call = "EVP_MD_CTX_new" THEN <<>>
                               ELSE IF s.call = "EVP_DigestUpdate" THEN @ \o s.arg
                               ELSE @,
                    !.run[t] = [me EXCEPT
                        !.val = IF s.call = "EVP_DigestFinal_ex"
                                THEN Digest(me.alg, thr.ctx[c]) ELSE @,
                        !.pos = IF me.pos = Len(me.steps) THEN @ ELSE @ + 1,
                        !.phase = IF me.pos = Len(me.steps) THEN "done" ELSE @]]
            ELSE \E p \in {<<>>, <<t>>} :
                   /\ p # <<>> => /\ s.kind \in {"call", "value"}
                                  /\ Len(thr.q[QueueOf(t)]) < MaxQueue
                   /\ thr' = [thr EXCEPT
                         !.q[QueueOf(t)] = @ \o p,
                         !.run[t] = [me EXCEPT
                             !.flt = IF fail THEN me.pos ELSE 0,
                             !.push = p,
                             !.phase = IF s.onfail = "drain" THEN "malloc" ELSE "done",
                             !.rc = IF s.onfail = "drain" THEN 0 ELSE ReturnOf(s).rc,
                             !.log = IF s.onfail = "drain" THEN <<>> ELSE ReturnOf(s).log]]
       /\ ThreadUnchanged

\* log_openssl_errors() in the thread: BUF = malloc(MAX), R = 0
ThreadDrainMalloc(t) ==
    LET me == thr.run[t]
    IN /\ me.phase = "malloc"
       /\ \E ok \in BOOLEAN :
            thr' = [thr EXCEPT !.run[t] =
                       IF ok THEN [me EXCEPT !.bufOk = TRUE, !.phase = "ERR_get_error"]
                       ELSE [me EXCEPT !.bufOk = FALSE, !.phase = "done", !.rc = -ENOMEM,
                                       !.log = <<LogOom>>]]
       /\ ThreadUnchanged

\* E = ERR_get_error(); if (E == 0) break; R = log_debug_errno(EIO, ..., E)
ThreadDrainGetError(t) ==
    LET me == thr.run[t]
        q == thr.q[QueueOf(t)]
    IN /\ me.phase = "ERR_get_error"
       /\ thr' = IF q = <<>>
                 THEN [thr EXCEPT !.run[t].phase = "fallback"]
                 ELSE [thr EXCEPT !.q[QueueOf(t)] = Tail(q),
                                  !.run[t].rc = -EIO,
                                  !.run[t].log = Append(@, LogErr(Head(q)))]
       /\ ThreadUnchanged

\* R ?: log_debug_errno(EIO, "No openssl errors."), and the return
ThreadDrainFallback(t) ==
    LET me == thr.run[t]
    IN /\ me.phase = "fallback"
       /\ thr' = [thr EXCEPT !.run[t] =
                     IF me.rc # 0 THEN [me EXCEPT !.phase = "done"]
                     ELSE [me EXCEPT !.phase = "done", !.rc = -EIO,
                                     !.log = Append(@, LogNoErrors)]]
       /\ ThreadUnchanged

NextThreads ==
    \E t \in Threads :
       \/ ThreadEnter(t)
       \/ ThreadCall(t)
       \/ ThreadDrainMalloc(t)
       \/ ThreadDrainGetError(t)
       \/ ThreadDrainFallback(t)

SpecThreads == InitThreads /\ [][NextThreads]_vars

(***************************************************************************)
(* Properties.                                                             *)
(***************************************************************************)
Ret(name, code) == op = name /\ returned /\ rc = code
Done(name) == op = name /\ returned

\* C1: a successful openssl_digest_many() hands back a buffer of exactly the size
\* openssl_digest_size() reports for the algorithm, filled to that size, and reports
\* that size when the caller asked for it; also with zero descriptors.
C1_DigestManySize ==
    Ret("openssl_digest_many", 0) =>
        /\ MdKnown(args.alg) /\ MdSize(args.alg) # 0
        /\ "digest" \in wrote
        /\ ~out.digest.null
        /\ out.digest.cap = MdSize(args.alg)
        /\ out.digest.len = MdSize(args.alg)
        /\ args.wantSize => ("digest_size" \in wrote /\ out.digest_size = MdSize(args.alg))

C1_Witness ==
    /\ Ret("openssl_digest_many", 0)
    /\ args.data = <<>>
    /\ args.wantSize
    /\ out.digest_size = 32

\* C2: a successful openssl_digest_many() issued one EVP_DigestUpdate() per descriptor,
\* in index order, all after EVP_DigestInit_ex() and before EVP_DigestFinal_ex(), so the
\* digest is that of the concatenation; with zero descriptors it issued none and the
\* digest is that of the empty string.
C2_DigestManyOrder ==
    Ret("openssl_digest_many", 0) =>
        /\ ArgsOf("EVP_DigestUpdate", calls) = args.data
        /\ \A u \in Positions("EVP_DigestUpdate", calls) :
              /\ \A i \in Positions("EVP_DigestInit_ex", calls) : i < u
              /\ \A f \in Positions("EVP_DigestFinal_ex", calls) : u < f
        /\ Cardinality(Positions("EVP_DigestFinal_ex", calls)) = 1
        /\ out.digest.val = Digest(args.alg, Concat(args.data))
        /\ args.data = <<>> =>
              /\ Positions("EVP_DigestUpdate", calls) = {}
              /\ out.digest.val = Digest(args.alg, <<>>)

C2_Witness ==
    /\ Ret("openssl_digest_many", 0)
    /\ args.data = << <<1>>, <<2, 1>> >>
    /\ out.digest.val = Digest("sha256", <<1, 2, 1>>)

\* C3 (as amended): openssl_digest_size() returns -EOPNOTSUPP exactly when the provider
\* does not resolve the name; when it resolves it and reports size zero the result is
\* that of log_openssl_errors(): -EIO, or -ENOMEM when the drain cannot allocate its
\* buffer; otherwise it returns 0 with the non-zero size.  It never returns 0 with size
\* zero and writes the size only when it returns 0.
C3_DigestSizeCodes ==
    Done("openssl_digest_size") =>
        /\ (rc = -EOPNOTSUPP) <=> (failed = MdFetch)
        /\ failed = MdGetSize =>
              /\ drain.ran
              /\ rc = IF drain.bufOk THEN -EIO ELSE -ENOMEM
        /\ failed = "" =>
              /\ rc = 0
              /\ wrote = {"digest_size"}
              /\ out.digest_size = MdSize(args.alg)
        /\ rc = 0 => out.digest_size # 0
        /\ rc # 0 => wrote = {}

C3_Witness ==
    /\ Ret("openssl_digest_size", -EIO)
    /\ args.alg = "shake128"
    /\ failed = MdGetSize

\* C3 as claimed: -EIO whenever the name resolves and the reported size is zero.
C3_AsClaimed ==
    Done("openssl_digest_size") =>
        /\ (rc = -EOPNOTSUPP) <=> (failed = MdFetch)
        /\ failed = MdGetSize => rc = -EIO
        /\ failed = "" => (rc = 0 /\ out.digest_size # 0)
        /\ rc = 0 => out.digest_size # 0
        /\ rc # 0 => wrote = {}

\* C4: a successful openssl_hmac_many(), whatever the key length (0 included) and the
\* input, hands back a non-null buffer, and its size is greater than zero and is the
\* MAC size the keyed context reported after its initialization.
C4_HmacManySize ==
    Ret("openssl_hmac_many", 0) =>
        LET q == Positions(MacGetSize, calls)
            macSize == ArgsOf(MacGetSize, calls)[1]
        IN /\ Cardinality(q) = 1
           /\ \A i \in Positions(MacInit, calls) : \A j \in q : i < j
           /\ Positions(MacInit, calls) # {}
           /\ "digest" \in wrote
           /\ ~out.digest.null
           /\ out.digest.len > 0
           /\ out.digest.len = macSize
           /\ out.digest.cap = macSize
           /\ args.wantSize => ("digest_size" \in wrote /\ out.digest_size = macSize)

C4_Witness ==
    /\ Ret("openssl_hmac_many", 0)
    /\ args.key = <<>>
    /\ args.wantSize
    /\ out.digest_size = 16
    /\ args.data = << <<2, 1>>, <<1>> >>

\* the buffer without its leading zero bytes
RECURSIVE StripZeros(_)
StripZeros(b) == IF b # <<>> /\ Head(b) = 0 THEN StripZeros(Tail(b)) ELSE b

ValidRsa(n, e) == StripZeros(n) # <<>> /\ StripZeros(e) # <<>>

\* C5: for a valid modulus and exponent (non-zero, leading zero bytes allowed), under
\* either provider generation, rsa_pkey_from_n_e() followed by rsa_pkey_to_n_e() on its
\* key returns 0 whenever no provider call or allocation fails, and whenever it returns
\* 0 the buffers are n and e without their leading zero bytes.
C5_RsaRoundTrip ==
    /\ (Done("rsa_pkey_from_n_e") /\ ValidRsa(args.n, args.e) /\ fault = 0) =>
          (rc = 0 /\ wrote = {"pkey"})
    /\ (Done("rsa_pkey_to_n_e") /\ made.by = "rsa_pkey_from_n_e" /\ ValidRsa(made.n, made.e)) =>
          /\ fault = 0 => rc = 0
          /\ rc = 0 =>
                /\ wrote = {"n", "n_size", "e", "e_size"}
                /\ out.n = StripZeros(made.n)
                /\ out.e = StripZeros(made.e)

C5_Witness ==
    /\ Ret("rsa_pkey_to_n_e", 0)
    /\ gen = 3
    /\ made.by = "rsa_pkey_from_n_e"
    /\ made.n = <<0, 255>>
    /\ made.e = <<0, 1, 0, 1>>
    /\ out.n = <<255>>
    /\ out.e = <<1, 0, 1>>

\* the result of a failure path that ends in log_openssl_errors()
DrainCode == IF drain.bufOk THEN -EIO ELSE -ENOMEM

FieldElems(curve_id, x, y) ==
    /\ CurveKnown(curve_id)
    /\ BN_bin2bn(x) < CurveOf(curve_id).p
    /\ BN_bin2bn(y) < CurveOf(curve_id).p

\* the congruence y^2 = x^3 + a*x + b (mod p) on the integers the buffers stand for
Congruent(curve_id, x, y) ==
    /\ CurveKnown(curve_id)
    /\ OnCurve(CurveOf(curve_id), BN_bin2bn(x), BN_bin2bn(y))

\* C6 (as amended): for a supported curve and a point on it given by field elements,
\* ecc_pkey_from_curve_x_y() followed by ecc_pkey_to_curve_x_y() returns 0 whenever no
\* provider call or allocation fails, and whenever it returns 0 it yields the same
\* curve id and x and y without their leading zero bytes.  For a point that is not on
\* the curve ecc_pkey_from_curve_x_y() returns what log_openssl_errors() returns (-EIO,
\* or -ENOMEM when the drain cannot allocate its buffer) and leaves *ret unwritten.
C6_EccRoundTrip ==
    /\ (Done("ecc_pkey_from_curve_x_y") /\ FieldElems(args.curve_id, args.x, args.y)
            /\ Congruent(args.curve_id, args.x, args.y) /\ fault = 0) =>
          (rc = 0 /\ wrote = {"pkey"})
    /\ (Done("ecc_pkey_to_curve_x_y") /\ made.by = "ecc_pkey_from_curve_x_y"
            /\ FieldElems(made.curve_id, made.x, made.y)) =>
          /\ fault = 0 => rc = 0
          /\ (rc = 0 /\ args.want = EccSlots) =>
                /\ wrote = EccSlots
                /\ out.curve_id = made.curve_id
                /\ out.x = StripZeros(made.x)
                /\ out.y = StripZeros(made.y)
    /\ (Done("ecc_pkey_from_curve_x_y") /\ CurveKnown(args.curve_id)
            /\ ~Congruent(args.curve_id, args.x, args.y)) =>
          /\ drain.ran
          /\ rc = DrainCode
          /\ wrote = {}
          /\ out.pkey = NullKey

\* a round trip that shortens a coordinate given with a leading zero byte
C6_Witness ==
    /\ Ret("ecc_pkey_to_curve_x_y", 0)
    /\ gen = 3
    /\ made.by = "ecc_pkey_from_curve_x_y"
    /\ made.curve_id = 415
    /\ made.x = <<0, 1>>
    /\ made.y = <<1>>
    /\ args.want = EccSlots
    /\ out.curve_id = 415
    /\ out.x = <<1>>
    /\ out.y = <<1>>

\* C6 as claimed: the round trip yields the very x and y it was given, and a point off
\* the curve is refused with -EIO (here: whenever the drain got its buffer).
C6_AsClaimed ==
    /\ (Ret("ecc_pkey_to_curve_x_y", 0) /\ made.by = "ecc_pkey_from_curve_x_y"
            /\ args.want = EccSlots) =>
          /\ out.curve_id = made.curve_id
          /\ out.x = made.x
          /\ out.y = made.y
    /\ (Done("ecc_pkey_from_curve_x_y") /\ CurveKnown(args.curve_id)
            /\ ~Congruent(args.curve_id, args.x, args.y) /\ drain.bufOk) =>
          /\ rc = -EIO
          /\ wrote = {}

\* C7 as claimed: a curve id the provider does not know makes ecc_pkey_from_curve_x_y()
\* and ecc_pkey_new() return -EOPNOTSUPP, as an unknown digest name does (stated for the
\* runs that get as far as naming the curve to the provider and whose drain got its
\* buffer).
C7_UnknownCurveUnsupported ==
    /\ (Done("ecc_pkey_from_curve_x_y") /\ failed = "EC_GROUP_new_by_curve_name"
            /\ ~CurveKnown(args.curve_id) /\ drain.bufOk) => rc = -EOPNOTSUPP
    /\ (Done("ecc_pkey_new") /\ failed = "EVP_PKEY_CTX_set_ec_paramgen_curve_nid"
            /\ ~CurveKnown(args.curve_id) /\ drain.bufOk) => rc = -EOPNOTSUPP

\* floor(a / d) for a >= 0, by its defining inequalities
Floor(a, d) == CHOOSE q \in 0..a : d * q <= a /\ a < d * (q + 1)

\* C8: rsa_pkey_to_suitable_key_size() returns -EBADMSG and writes nothing for a key
\* that is not RSA; for an RSA key of b bits it returns 0 with floor(floor(b/8)/2)
\* whenever that is at least 1 (128 for 2048 bits); it never returns 0 with a size of 0.
C8_SuitableKeySize ==
    Done("rsa_pkey_to_suitable_key_size") =>
        LET b == args.pkey.bits
            halfBytes == Floor(Floor(b, 8), 2)
        IN /\ args.pkey.type # "RSA" => (rc = -EBADMSG /\ wrote = {} /\ out.key_size = 0)
           /\ (args.pkey.type = "RSA" /\ halfBytes >= 1) =>
                 (rc = 0 /\ wrote = {"key_size"} /\ out.key_size = halfBytes)
           /\ (args.pkey.type = "RSA" /\ b = 2048) => (rc = 0 /\ out.key_size = 128)
           /\ rc = 0 => out.key_size >= 1

C8_Witness ==
    /\ Ret("rsa_pkey_to_suitable_key_size", 0)
    /\ args.pkey.type = "RSA"
    /\ args.pkey.bits = 2048
    /\ out.key_size = 128

\* C9 as claimed: for an RSA key of fewer than 16 bits rsa_pkey_to_suitable_key_size()
\* fails with an error code other than -EIO, the code of generic provider failures, and
\* writes no size.
C9_ShortKeyBadInput ==
    (Done("rsa_pkey_to_suitable_key_size") /\ args.pkey.type = "RSA" /\ args.pkey.bits < 16) =>
        /\ rc < 0
        /\ rc # -EIO
        /\ wrote = {}

DrainReturned == op = "log_openssl_errors" /\ pc = "done"

\* one diagnostic per record of q, in the order of q
DiagsOf(q) == [i \in 1..Len(q) |-> LogErr(q[i])]

\* C10 (as amended): log_openssl_errors() always returns, and never returns success.
\* When it gets its buffer it returns -EIO, leaves the queue empty, and has emitted one
\* diagnostic per record queued on entry, in queue order, or exactly one "No openssl
\* errors." diagnostic when the queue was empty on entry.  When it does not get its
\* buffer it returns -ENOMEM, has emitted the out-of-memory diagnostic only, and leaves
\* the queue as it found it.  The call-at-once form the wrappers use yields the same.
C10_DrainOutcome ==
    /\ <>DrainReturned
    /\ [](DrainReturned =>
            /\ rc < 0
            /\ drain.bufOk =>
                  /\ rc = -EIO
                  /\ errq = <<>>
                  /\ drain.entry # <<>> => log = DiagsOf(drain.entry)
                  /\ drain.entry = <<>> => log = <<LogNoErrors>>
            /\ ~drain.bufOk =>
                  /\ rc = -ENOMEM
                  /\ log = <<LogOom>>
                  /\ errq = drain.entry
            /\ [rc |-> rc, log |-> log, errq |-> errq]
                  = log_openssl_errors(drain.entry, drain.bufOk))

C10_Witness ==
    /\ DrainReturned
    /\ drain.entry = <<2, 1>>
    /\ drain.bufOk
    /\ rc = -EIO
    /\ log = <<LogErr(2), LogErr(1)>>
    /\ errq = <<>>

\* C10 as claimed: always returns, always with -EIO, the queue empty and k diagnostics
\* for k >= 1 records, one for none.
C10_AsClaimed ==
    /\ <>DrainReturned
    /\ [](DrainReturned =>
            /\ rc = -EIO
            /\ errq = <<>>
            /\ drain.entry # <<>> => log = DiagsOf(drain.entry)
            /\ drain.entry = <<>> => log = <<LogNoErrors>>)

\* C11 as claimed: whenever an operation returns -EIO, log_openssl_errors() has run in
\* that call and the thread's error queue is empty at the return.
C11_IoErrorDrained ==
    (op # "" /\ returned /\ rc = -EIO) => (drain.ran /\ errq = <<>>)

\* what the thread's call returns when it runs alone from the same queue with the same
\* provider outcomes
Alone(t) ==
    LET me == thr.run[t]
    IN Exec(me.steps, me.flt, me.push, me.bufOk, me.q0)

ThreadDone(t) == thr # <<>> /\ thr.run[t].phase = "done"

\* C12: when two operations that share no handle run on two threads, their provider
\* calls and drain statements interleaved in any way, each returns the code, the
\* diagnostics, the call sequence and the digest it returns when run alone, leaves its
\* thread's queue as it would alone, and its drain logs only records its own thread
\* queued.
C12_ThreadsIsolated ==
    \A t \in Threads :
       ThreadDone(t) =>
          LET me == thr.run[t]
              r == Alone(t)
          IN /\ r.returned
             /\ me.rc = r.rc
             /\ me.log = r.log
             /\ Trace(me.steps, me.pos) = r.calls
             /\ thr.q[t] = r.errq
             /\ (me.rc = 0 /\ me.op = "openssl_digest_many") =>
                   me.val = DigestManyOut(me.alg, r.calls, MdSize(me.alg), TRUE).digest.val
             /\ \A i \in 1..Len(me.log) : me.log[i][1] = "error" => me.log[i][2] = t

\* both threads drained a record of their own while the other was between its calls
C12_Witness ==
    /\ ThreadDone(1) /\ ThreadDone(2)
    /\ thr.run[1].op = "openssl_digest_many" /\ thr.run[2].op = "openssl_digest_many"
    /\ thr.run[1].log = <<LogErr(1), LogErr(1)>>
    /\ thr.run[2].log = <<LogErr(2)>>
    /\ thr.run[2].flt > 4

TwoPhaseCall == IF op = "rsa_encrypt_bytes" THEN "EVP_PKEY_encrypt" ELSE "EVP_DigestSign"

\* C13: a successful rsa_encrypt_bytes() or digest_and_sign() made the provider call
\* twice, first with a null output; the buffer was allocated between the two with
\* exactly the size the first call reported; the second call was told that same
\* capacity; the size handed to the caller is the one the second call reported, and it
\* does not exceed the allocation.
C13_TwoPhaseSizes ==
    ((Ret("rsa_encrypt_bytes", 0) \/ Ret("digest_and_sign", 0))) =>
        LET a == ArgsOf(TwoPhaseCall, calls)
            at == Positions(TwoPhaseCall, calls)
            m == ArgsOf("malloc", calls)
        IN /\ Len(a) = 2 /\ Len(m) = 1
           /\ a[1].out = "NULL" /\ a[2].out = "buf"
           /\ m[1] = a[1].size
           /\ a[2].cap = a[1].size
           /\ \A i \in Positions("malloc", calls) :
                 \E f, g \in at : f < i /\ i < g
           /\ wrote = {"ret", "ret_size"}
           /\ ~out.ret.null
           /\ out.ret.cap = m[1]
           /\ out.ret_size = a[2].size
           /\ out.ret.len = a[2].size
           /\ out.ret_size <= out.ret.cap

\* a signature shorter than the size the first call asked for
C13_Witness ==
    /\ Ret("digest_and_sign", 0)
    /\ args.pkey.type = "EC"
    /\ out.ret.cap = 72
    /\ out.ret_size = 70

\* the number of bytes before the first NUL of mem (all of them when it holds none)
BytesBeforeNul(mem) ==
    CHOOSE n \in 0..Len(mem) :
        /\ \A i \in 1..n : mem[i] # 0
        /\ n = Len(mem) \/ mem[n + 1] = 0

\* C14: every EVP_DigestSign() call digest_and_sign() issues is given a pointer that is
\* not null and a length that is 0 when the caller's size is 0, the string length of the
\* data when the size is SIZE_MAX, and the size otherwise; both calls are given the same
\* pair.  A null data pointer with size 0 reaches the provider as a valid pointer.
C14_SignInputNormalized ==
    op = "digest_and_sign" =>
        LET a == ArgsOf("EVP_DigestSign", calls)
            expected == IF args.size = 0 THEN 0
                        ELSE IF args.size = SIZE_MAX THEN BytesBeforeNul(args.data.mem)
                        ELSE args.size
        IN /\ \A i \in 1..Len(a) :
                 /\ a[i].in.ptr # "NULL"
                 /\ a[i].in.len = expected
                 /\ a[i].in = a[1].in
           /\ (returned /\ rc = 0) => Len(a) = 2

C14_Witness ==
    /\ Ret("digest_and_sign", 0)
    /\ args.data.null
    /\ args.size = 0
    /\ Len(ArgsOf("EVP_DigestSign", calls)) = 2
    /\ ArgsOf("EVP_DigestSign", calls)[2].in = [ptr |-> "empty string", len |-> 0]

\* C15 as claimed: in every operation, once a provider call or allocation has failed,
\* that call is the last one issued, the operation returns a code below zero, and no
\* output slot has been written; slots are written only by a run in which nothing
\* failed.
C15_FailFast ==
    /\ (op # "" /\ failed # "" /\ failed # "assert") =>
          /\ returned
          /\ rc < 0
          /\ wrote = {}
          /\ out = NoOut
          /\ calls # <<>> /\ calls[Len(calls)][1] = failed
          /\ fault # 0 => Len(calls) = fault
    /\ (op # "" /\ fault # 0) => failed # ""
    /\ (op # "" /\ wrote # {}) => (returned /\ rc = 0 /\ failed = "")

\* C15 for the operations other than string_hashsum()
C15_FailFastElsewhere == op # "string_hashsum" => C15_FailFast

\* C16 as claimed: when an operation has left, no release has acted on a local that was
\* neither acquired nor null, and every resource the call acquired was either released
\* by it or handed on (to the caller or to another object), never both.
C16_ReleasedOnce ==
    op # "" =>
        /\ res.wild = {}
        /\ res.acquired = res.released \cup res.handed
        /\ res.released \cap res.handed = {}
====
